---- MODULE Spec2Model ----
(***************************************************************************)
(* Download-link acquisition flow of the DownloadModal component           *)
(* (src/src/components/ui/alternative-player.tsx, lines 71-366).           *)
(*                                                                         *)
(* The React state of the component is the state of the model; every       *)
(* event handler, the mount/videoId effect and the continuation of each    *)
(* awaited fetch is one action.  Requests in flight are kept in the two    *)
(* sequences catPending and linkPending; a response may answer any of      *)
(* them, in any order, because the component never cancels a request.      *)
(***************************************************************************)
EXTENDS Integers, Sequences, FiniteSets, TLC

\* ------------------------------------------------------------------------
\* Bounds of the model
\* ------------------------------------------------------------------------

\* how many times the videoId prop may change after mount
MaxVideoIdChanges == 1

\* how many link requests may be outstanding when the handler is invoked
\* directly, without the button's disabled attribute in the way
MaxLinkInFlight == 1

\* ------------------------------------------------------------------------
\* Values
\* ------------------------------------------------------------------------

\* content ids the host may pass as the videoId prop
VideoIds == {1, 2}

\* quality labels are strings; a string is a sequence of characters
L720p == <<"7", "2", "0", "p">>
L360p == <<"3", "6", "0", "p">>
L1080p60 == <<"1", "0", "8", "0", "p", "6", "0">>
L128k == <<"1", "2", "8", "k">>
L720k == <<"7", "2", "0", "k">>
LEmpty == <<>>

\* the literal '720' of useState('720') and of includes('720')
Lit720 == <<"7", "2", "0">>

Digits == {"0", "1", "2", "3", "4", "5", "6", "7", "8", "9"}

\* a DownloadFormat; only its quality takes part in the logic
Fmt(q) == [quality |-> q, container |-> "c", size |-> "s"]

\* the lists a Format Catalog Service response may carry
VideoLists ==
  { <<>>,
    << Fmt(L360p), Fmt(L720p) >>,
    << Fmt(L1080p60), Fmt(LEmpty) >> }

AudioLists ==
  { <<>>,
    << Fmt(L128k), Fmt(L720k) >>,
    << Fmt(L128k) >> }

\* formats === null
NoFormats == [title |-> 0, videoFormats |-> <<>>, audioFormats |-> <<>>, error |-> ""]

\* downloadUrl === null; a url is identified with the request it was issued for
NoUrl == [videoId |-> 0, quality |-> <<>>, type |-> "none"]

\* downloadInfo === null
NoInfo == [quality |-> <<>>, fileSize |-> "", container |-> ""]

\* error === null (the empty string is falsy as well)
NoError == ""

\* ------------------------------------------------------------------------
\* State
\* ------------------------------------------------------------------------
VARIABLES
  mounted,          \* the mount effect has run
  videoId,          \* the videoId prop
  activeTab,        \* useState<'video' | 'audio'>('video')
  selectedQuality,  \* useState<string>('720')
  loading,          \* useState(false)
  fetchingFormats,  \* useState(true)
  downloadUrl,      \* useState<string | null>(null)
  error,            \* useState<string | null>(null)
  formats,          \* useState<FormatsResponse | null>(null)
  downloadInfo,     \* useState<{quality, fileSize, container} | null>(null)
  catPending,       \* GET /api/download requests not answered yet (their videoId
                    \* and, as history, what caused them)
  linkPending,      \* POST /api/download requests not answered yet (their body)
  errorSlot,        \* history: which operation stored the current error
  lastOp,           \* history: the operation that produced this state
  changes           \* history: number of videoId changes so far

vars == << mounted, videoId, activeTab, selectedQuality, loading, fetchingFormats,
           downloadUrl, error, formats, downloadInfo, catPending, linkPending,
           errorSlot, lastOp, changes >>

\* the React state of the component together with the requests in flight
progVars == << videoId, activeTab, selectedQuality, loading, fetchingFormats,
               downloadUrl, error, formats, downloadInfo, catPending, linkPending >>

\* ------------------------------------------------------------------------
\* Pure helpers
\* ------------------------------------------------------------------------

\* String.prototype.includes
Includes(s, pat) ==
  \E i \in 0..(Len(s) - Len(pat)) : SubSeq(s, i + 1, i + Len(pat)) = pat

\* selectedQuality.replace(/[^\d]/g, '')
IsDigit(c) == c \in Digits

\* the normalisation done as parseInt would do it: the leading digits only
QualityNumber_LeadingDigits(s) ==
  IF \E i \in DOMAIN s : ~IsDigit(s[i])
  THEN SubSeq(s, 1, (CHOOSE i \in DOMAIN s :
                       ~IsDigit(s[i]) /\ \A j \in 1..(i - 1) : IsDigit(s[j])) - 1)
  ELSE s

QualityNumber(s) == SelectSeq(s, IsDigit)

\* Array.prototype.find for f => f.quality?.includes('720'): index of the
\* first match, 0 when there is none
Find720(list) ==
  IF \E i \in DOMAIN list : Includes(list[i].quality, Lit720)
  THEN CHOOSE i \in DOMAIN list :
         /\ Includes(list[i].quality, Lit720)
         /\ \A j \in 1..(i - 1) : ~Includes(list[j].quality, Lit720)
  ELSE 0

\* DefaultFormat with the fallback taken from the wrong end of the list
DefaultFormat_LastFallback(list) ==
  IF Find720(list) # 0 THEN list[Find720(list)] ELSE list[Len(list)]

\* list.find(...) || list[0], for a non-empty list
DefaultFormat(list) ==
  IF Find720(list) # 0 THEN list[Find720(list)] ELSE list[1]

\* remove the i-th element of a sequence
RemoveAt(s, i) == SubSeq(s, 1, i - 1) \o SubSeq(s, i + 1, Len(s))

\* const currentFormats = activeTab === 'video' ? formats?.videoFormats : formats?.audioFormats
ListOf(f, tab) == IF tab = "video" THEN f.videoFormats ELSE f.audioFormats

currentFormats == ListOf(formats, activeTab)

\* which of the three branches of the body is rendered (lines 211-231)
View ==
  IF fetchingFormats THEN "fetching"
  ELSE IF error # NoError /\ formats = NoFormats THEN "catalogError"
  ELSE "main"

\* the FlowState the rendered view stands for (lines 211-231, 292-353)
FlowState ==
  IF fetchingFormats THEN "FetchingCatalog"
  ELSE IF error # NoError /\ formats = NoFormats THEN "CatalogError"
  ELSE IF loading THEN "IssuingLink"
  ELSE IF downloadUrl # NoUrl THEN "LinkReady"
  ELSE IF error # NoError THEN "LinkError"
  ELSE "Ready"

\* the disabled attribute without its loading term
GenerateDisabled_IgnoresLoading ==
  selectedQuality = <<>> \/ Len(currentFormats) = 0

\* disabled={loading || !selectedQuality || !currentFormats?.length}
GenerateDisabled ==
  loading \/ selectedQuality = <<>> \/ Len(currentFormats) = 0

\* ------------------------------------------------------------------------
\* Responses of the two services
\* ------------------------------------------------------------------------

\* bodies of a Format Catalog Service response to a request for videoId v
CatalogBodies(v) ==
  { [title |-> v, videoFormats |-> vl, audioFormats |-> al, error |-> ""] :
      vl \in VideoLists, al \in AudioLists }
  \cup { [title |-> v, videoFormats |-> <<>>, audioFormats |-> <<>>,
          error |-> "catalog_service_error"] }

\* the outcomes of fetch + response.json() for a catalog request
CatalogResponses(v) ==
  { [class |-> "catalogNetworkError", ok |-> FALSE, body |-> NoFormats] }
  \cup { [class |-> "catalogNon2xx", ok |-> FALSE,
          body |-> [NoFormats EXCEPT !.error = e]] :
           e \in {"", "catalog_service_error"} }
  \cup { [class |-> IF b.error = "" THEN "catalog2xx" ELSE "catalog2xxErrorField",
          ok |-> TRUE, body |-> b] : b \in CatalogBodies(v) }

\* the outcomes of fetch + response.json() for a link request
LinkResponses(req) ==
  { [class |-> "linkNetworkError", ok |-> FALSE, url |-> NoUrl, info |-> NoInfo, error |-> ""] }
  \cup { [class |-> "linkNon2xx", ok |-> FALSE, url |-> NoUrl, info |-> NoInfo, error |-> e] :
           e \in {"", "link_service_error"} }
  \cup { [class |-> "link2xx", ok |-> TRUE, url |-> req,
          info |-> [quality |-> req.quality, fileSize |-> "s",
                    container |-> IF req.type = "video" THEN "mp4" ELSE "m4a"],
          error |-> ""] }

\* ------------------------------------------------------------------------
\* Initial state: the values of the useState calls, before the mount effect
\* ------------------------------------------------------------------------
Init ==
  /\ mounted = FALSE
  /\ videoId = 1
  /\ activeTab = "video"
  /\ selectedQuality = Lit720
  /\ loading = FALSE
  /\ fetchingFormats = TRUE
  /\ downloadUrl = NoUrl
  /\ error = NoError
  /\ formats = NoFormats
  /\ downloadInfo = NoInfo
  /\ catPending = <<>>
  /\ linkPending = <<>>
  /\ errorSlot = "none"
  /\ lastOp = "init"
  /\ changes = 0

\* ------------------------------------------------------------------------
\* fetchFormats (lines 87-110)
\* ------------------------------------------------------------------------

\* fetchFormats without its setFetchingFormats(true)
FetchFormatsStart_NoSpinner(v, cause) ==
  /\ UNCHANGED fetchingFormats
  /\ error' = NoError
  /\ errorSlot' = "none"
  /\ catPending' = Append(catPending, [videoId |-> v, cause |-> cause])

\* the part of fetchFormats before the await, for the videoId v of the render
\* that created the closure
FetchFormatsStart(v, cause) ==
  /\ fetchingFormats' = TRUE
  /\ error' = NoError
  /\ errorSlot' = "none"
  /\ catPending' = Append(catPending, [videoId |-> v, cause |-> cause])

\* useEffect(() => { fetchFormats(); }, [videoId]) on mount
Mount ==
  /\ ~mounted
  /\ mounted' = TRUE
  /\ FetchFormatsStart(videoId, "mount")
  /\ lastOp' = "mount"
  /\ UNCHANGED << videoId, activeTab, selectedQuality, loading, downloadUrl,
                  formats, downloadInfo, linkPending, changes >>

\* the host passes another videoId: the effect runs fetchFormats again
VideoIdChange(v) ==
  /\ mounted
  /\ v # videoId
  /\ changes < MaxVideoIdChanges
  /\ changes' = changes + 1
  /\ videoId' = v
  /\ FetchFormatsStart(v, "videoIdChange")
  /\ lastOp' = "videoIdChange"
  /\ UNCHANGED << mounted, activeTab, selectedQuality, loading, downloadUrl,
                  formats, downloadInfo, linkPending >>

\* the retry button of the catalog-error view (lines 222-228)
Retry ==
  /\ mounted
  /\ View = "catalogError"
  /\ FetchFormatsStart(videoId, "retry")
  /\ lastOp' = "retry"
  /\ UNCHANGED << mounted, videoId, activeTab, selectedQuality, loading, downloadUrl,
                  formats, downloadInfo, linkPending, changes >>

\* does fetchFormats take the success path for this response (line 95)
CatalogAccepted(resp) == resp.ok

\* the list fetchFormats derives the default selection from (lines 101-102)
CatalogDefaultList(data, tab) == data.videoFormats

\* FetchFormatsDone with a catch block that sends the request again
FetchFormatsDone_AutoRetry(i, resp) ==
  /\ IF CatalogAccepted(resp)
     THEN /\ formats' = resp.body
          /\ selectedQuality' =
               IF Len(CatalogDefaultList(resp.body, activeTab)) > 0
               THEN DefaultFormat(CatalogDefaultList(resp.body, activeTab)).quality
               ELSE selectedQuality
          /\ catPending' = RemoveAt(catPending, i)
          /\ UNCHANGED << error, errorSlot >>
     ELSE /\ error' = "failed_fetching_formats"
          /\ errorSlot' = "catalog"
          /\ catPending' = Append(RemoveAt(catPending, i), catPending[i])
          /\ UNCHANGED << formats, selectedQuality >>
  /\ fetchingFormats' = FALSE
  /\ lastOp' = resp.class
  /\ UNCHANGED << mounted, videoId, activeTab, loading, downloadUrl, downloadInfo,
                  linkPending, changes >>

\* the continuation of fetchFormats after the await, for the i-th request
FetchFormatsDone(i, resp) ==
  /\ IF CatalogAccepted(resp)
     THEN /\ formats' = resp.body
          /\ selectedQuality' =
               IF Len(CatalogDefaultList(resp.body, activeTab)) > 0
               THEN DefaultFormat(CatalogDefaultList(resp.body, activeTab)).quality
               ELSE selectedQuality
          /\ UNCHANGED << error, errorSlot >>
     ELSE /\ error' = IF resp.class = "catalogNetworkError" THEN "Failed to fetch"
                      ELSE IF resp.body.error # "" THEN resp.body.error
                      ELSE "failed_fetching_formats"
          /\ errorSlot' = "catalog"
          /\ UNCHANGED << formats, selectedQuality >>
  /\ fetchingFormats' = FALSE
  /\ catPending' = RemoveAt(catPending, i)
  /\ lastOp' = resp.class
  /\ UNCHANGED << mounted, videoId, activeTab, loading, downloadUrl, downloadInfo,
                  linkPending, changes >>

CatalogResponse ==
  \E i \in DOMAIN catPending :
    \E resp \in CatalogResponses(catPending[i].videoId) : FetchFormatsDone(i, resp)

\* ------------------------------------------------------------------------
\* handleTabChange (lines 112-126)
\* ------------------------------------------------------------------------

\* TabDefaultQuality without the '720' preference of the video branch
TabDefaultQuality_FirstOnly(f, tab) == ListOf(f, tab)[1].quality

\* the quality handleTabChange selects for a tab whose list is non-empty
TabDefaultQuality(f, tab) ==
  IF tab = "video" THEN DefaultFormat(f.videoFormats).quality
  ELSE f.audioFormats[1].quality

handleTabChange(tab) ==
  /\ mounted
  /\ View = "main"
  /\ activeTab' = tab
  /\ downloadUrl' = NoUrl
  /\ error' = NoError
  /\ errorSlot' = "none"
  /\ downloadInfo' = NoInfo
  /\ selectedQuality' =
       IF formats # NoFormats /\ Len(ListOf(formats, tab)) > 0
       THEN TabDefaultQuality(formats, tab)
       ELSE selectedQuality
  /\ lastOp' = "selectMediaKind"
  /\ UNCHANGED << mounted, videoId, loading, fetchingFormats, formats,
                  catPending, linkPending, changes >>

\* ------------------------------------------------------------------------
\* onClick of a quality button (lines 264-268)
\* ------------------------------------------------------------------------

\* what the quality button does to downloadInfo: nothing
QualityClickInfo == downloadInfo

SelectQuality(i) ==
  /\ mounted
  /\ View = "main"
  /\ i \in DOMAIN currentFormats
  /\ selectedQuality' = currentFormats[i].quality
  /\ downloadUrl' = NoUrl
  /\ error' = NoError
  /\ errorSlot' = "none"
  /\ downloadInfo' = QualityClickInfo
  /\ lastOp' = "selectQuality"
  /\ UNCHANGED << mounted, videoId, activeTab, loading, fetchingFormats, formats,
                  catPending, linkPending, changes >>

\* ------------------------------------------------------------------------
\* onClick of "select different quality" (lines 324-329)
\* ------------------------------------------------------------------------
\* the reset button also putting the quality selection back to its initial value
ResetLink_ResetsSelection ==
  /\ mounted
  /\ View = "main"
  /\ downloadUrl # NoUrl
  /\ downloadUrl' = NoUrl
  /\ error' = NoError
  /\ errorSlot' = "none"
  /\ downloadInfo' = NoInfo
  /\ selectedQuality' = Lit720
  /\ lastOp' = "resetLink"
  /\ UNCHANGED << mounted, videoId, activeTab, loading,
                  fetchingFormats, formats, catPending, linkPending, changes >>

ResetLink ==
  /\ mounted
  /\ View = "main"
  /\ downloadUrl # NoUrl
  /\ downloadUrl' = NoUrl
  /\ error' = NoError
  /\ errorSlot' = "none"
  /\ downloadInfo' = NoInfo
  /\ lastOp' = "resetLink"
  /\ UNCHANGED << mounted, videoId, activeTab, selectedQuality, loading,
                  fetchingFormats, formats, catPending, linkPending, changes >>

\* ------------------------------------------------------------------------
\* generateDownloadLink (lines 128-165)
\* ------------------------------------------------------------------------

\* generateDownloadLink without its guard
GenerateReturnsEarly_Never == FALSE

\* if (!selectedQuality) return;
GenerateReturnsEarly == selectedQuality = <<>>

\* the body of the POST request (lines 141-145)
LinkRequestBody ==
  [videoId |-> videoId, quality |-> QualityNumber(selectedQuality), type |-> activeTab]

\* the part of generateDownloadLink before the await
generateDownloadLink ==
  /\ IF GenerateReturnsEarly
     THEN UNCHANGED << loading, error, errorSlot, downloadUrl, linkPending >>
     ELSE /\ loading' = TRUE
          /\ error' = NoError
          /\ errorSlot' = "none"
          /\ downloadUrl' = NoUrl
          /\ linkPending' = Append(linkPending, LinkRequestBody)
  /\ lastOp' = "requestLink"
  /\ UNCHANGED << mounted, videoId, activeTab, selectedQuality, fetchingFormats,
                  formats, downloadInfo, catPending, changes >>

\* a click on the generate button, which is rendered while no link is shown
\* and is clickable unless disabled (lines 299, 336-338)
ClickGenerate ==
  /\ mounted
  /\ View = "main"
  /\ downloadUrl = NoUrl
  /\ ~GenerateDisabled
  /\ generateDownloadLink

\* the handler called as a function, whatever the button's disabled attribute
InvokeGenerate ==
  /\ mounted
  /\ Len(linkPending) < MaxLinkInFlight
  /\ generateDownloadLink

\* the continuation of generateDownloadLink after the await, for the i-th request
GenerateDone(i, resp) ==
  /\ IF resp.ok
     THEN /\ downloadUrl' = resp.url
          /\ downloadInfo' = resp.info
          /\ UNCHANGED << error, errorSlot >>
     ELSE /\ error' = IF resp.class = "linkNetworkError" THEN "Failed to fetch"
                      ELSE IF resp.error # "" THEN resp.error
                      ELSE "failed_generating_link"
          /\ errorSlot' = "link"
          /\ UNCHANGED << downloadUrl, downloadInfo >>
  /\ loading' = FALSE
  /\ linkPending' = RemoveAt(linkPending, i)
  /\ lastOp' = resp.class
  /\ UNCHANGED << mounted, videoId, activeTab, selectedQuality, fetchingFormats,
                  formats, catPending, changes >>

LinkResponse ==
  \E i \in DOMAIN linkPending :
    \E resp \in LinkResponses(linkPending[i]) : GenerateDone(i, resp)

\* ------------------------------------------------------------------------
\* Specifications
\* ------------------------------------------------------------------------
ChangeVideoId == \E v \in VideoIds : VideoIdChange(v)

ChangeTab == \E tab \in {"video", "audio"} : handleTabChange(tab)

ClickQuality == \E i \in DOMAIN currentFormats : SelectQuality(i)

Next ==
  \/ Mount
  \/ ChangeVideoId
  \/ Retry
  \/ CatalogResponse
  \/ ChangeTab
  \/ ClickQuality
  \/ ResetLink
  \/ ClickGenerate
  \/ LinkResponse

\* the component as the user and the two services drive it
Spec == Init /\ [][Next]_vars

NextDirect == Next \/ InvokeGenerate

\* the same, with generateDownloadLink also callable as a plain function
SpecDirect == Init /\ [][NextDirect]_vars

\* ------------------------------------------------------------------------
\* Properties
\* ------------------------------------------------------------------------

\* q is the default quality of a non-empty list: the quality of the first
\* entry that contains "720", of the first entry when no entry does
IsDefaultQuality(q, list) ==
  \E i \in DOMAIN list :
    /\ q = list[i].quality
    /\ \/ /\ Includes(list[i].quality, Lit720)
          /\ \A j \in 1..(i - 1) : ~Includes(list[j].quality, Lit720)
       \/ /\ i = 1
          /\ \A j \in DOMAIN list : ~Includes(list[j].quality, Lit720)

No720(list) == \A j \in DOMAIN list : ~Includes(list[j].quality, Lit720)

\* C1: a stored IssuedLink was issued for the currently selected mediaKind
\* and quality; the link of an earlier selection is never present.
C1_LinkMatchesSelection ==
  downloadUrl # NoUrl =>
    /\ downloadUrl.type = activeTab
    /\ downloadUrl.quality = QualityNumber(selectedQuality)

\* C2: in the state right after selectQuality or selectMediaKind no issued
\* link (url and quality/size/container info) and no error is stored.
C2_SelectionChangeClears ==
  lastOp \in {"selectQuality", "selectMediaKind"} =>
    /\ downloadUrl = NoUrl
    /\ downloadInfo = NoInfo
    /\ error = NoError

\* C3: right after a successful catalog response the selected quality is the
\* default quality of the list of the active mediaKind (when it has entries).
C3_CatalogDefaultOfActiveList ==
  (lastOp = "catalog2xx" /\ Len(currentFormats) > 0) =>
    IsDefaultQuality(selectedQuality, currentFormats)

\* C4 (as claimed): right after selectMediaKind with a stored catalog the
\* selected quality is the default quality of the newly active list, for the
\* audio list as for the video list.
C4_TabChangeDefault ==
  (lastOp = "selectMediaKind" /\ formats # NoFormats /\ Len(currentFormats) > 0) =>
    IsDefaultQuality(selectedQuality, currentFormats)

\* C4 (amended): right after selectMediaKind with a stored catalog whose newly
\* active list has entries, the video kind selects the default quality of the
\* video list and the audio kind selects the first entry of the audio list.
C4_TabChangeDefaultAmended ==
  (lastOp = "selectMediaKind" /\ formats # NoFormats /\ Len(currentFormats) > 0) =>
    IF activeTab = "video"
    THEN IsDefaultQuality(selectedQuality, formats.videoFormats)
    ELSE selectedQuality = formats.audioFormats[1].quality

\* both kinds have been selected on lists whose "720" entry is not the first
C4_Witness ==
  /\ lastOp = "selectMediaKind"
  /\ Find720(currentFormats) > 1
  /\ Find720(ListOf(formats, IF activeTab = "video" THEN "audio" ELSE "video")) > 1
  /\ activeTab = "video"
  /\ selectedQuality = L720p

\* C5: right after selectMediaKind on a non-empty list without a "720" entry
\* the selected quality is the one of the first entry of that list.
C5_TabChangeFallback ==
  (lastOp = "selectMediaKind" /\ Len(currentFormats) > 0 /\ No720(currentFormats)) =>
    selectedQuality = currentFormats[1].quality

\* a kind was selected whose list has several entries, none with "720"
C5_Witness ==
  /\ lastOp = "selectMediaKind"
  /\ Len(currentFormats) > 1
  /\ No720(currentFormats)
  /\ selectedQuality = currentFormats[1].quality

\* C6: a catalog response that is non-2xx or carries an error field leaves a
\* catalog error stored, and no catalog carrying an error field is stored.
C6_ErrorResponseIsFailure ==
  /\ lastOp \in {"catalogNon2xx", "catalog2xxErrorField"} =>
       (error # NoError /\ errorSlot = "catalog")
  /\ formats.error = ""

\* C7: the catalog error and the link error are never conflated: a catalog
\* failure is never shown in the link-error banner of the main view, a link
\* failure is never shown in the catalog-error view, and an error of one
\* slot is cleared or overwritten only by an operation of that slot.
C7_ErrorSlotsIndependent ==
  [][ /\ (errorSlot' = "catalog" => View' # "main")
      /\ (errorSlot' = "link" => View' # "catalogError")
      /\ (errorSlot = "link" /\ errorSlot' # "link") =>
           lastOp' \in {"selectQuality", "selectMediaKind", "resetLink", "requestLink"}
      /\ (errorSlot = "catalog" /\ errorSlot' # "catalog") =>
           lastOp' \in {"retry", "videoIdChange"} ]_vars

\* C8: right after a failed link request an error is stored and neither the
\* url nor the quality/size/container info of any link is stored.
C8_FailedRequestLeavesNoLink ==
  lastOp \in {"linkNon2xx", "linkNetworkError"} =>
    /\ error # NoError
    /\ downloadUrl = NoUrl
    /\ downloadInfo = NoInfo

\* C9: generateDownloadLink called while the selection is empty sends no
\* request and changes no state of the component.
C9_EmptySelectionNoop ==
  [][ (lastOp' = "requestLink" /\ selectedQuality = <<>>) => UNCHANGED progVars ]_vars

\* generateDownloadLink has been called with an empty selection and a stored catalog
C9_Witness ==
  /\ lastOp = "requestLink"
  /\ selectedQuality = <<>>
  /\ formats # NoFormats

\* C10: retry is a step from CatalogError to FetchingCatalog that clears the
\* error and sends a catalog request for the current contentId, and a 2xx
\* answer to a request sent by retry leaves the flow in Ready with the
\* catalog of that request stored.
C10_RetryReachesReady ==
  [][ /\ lastOp' = "retry" =>
           /\ FlowState = "CatalogError"
           /\ FlowState' = "FetchingCatalog"
           /\ error' = NoError
           /\ catPending' = Append(catPending, [videoId |-> videoId, cause |-> "retry"])
      /\ \A i \in DOMAIN catPending :
           (/\ catPending[i].cause = "retry"
            /\ catPending' = RemoveAt(catPending, i)
            /\ lastOp' = "catalog2xx") =>
             /\ FlowState' = "Ready"
             /\ formats'.title = catPending[i].videoId ]_vars

\* the classes of the responses of the two services
CatalogFailures == {"catalogNetworkError", "catalogNon2xx"}

LinkFailures == {"linkNetworkError", "linkNon2xx"}

ResponseClasses ==
  CatalogFailures \cup LinkFailures \cup {"catalog2xx", "catalog2xxErrorField", "link2xx"}

\* C11: a request is added to the requests in flight only by mount, a
\* videoId change, retry or requestLink, and carries that cause; a step that
\* handles a response only removes the answered request.
C11_NoAutomaticRetry ==
  [][ /\ catPending' # catPending /\ lastOp' \notin ResponseClasses =>
           /\ lastOp' \in {"mount", "videoIdChange", "retry"}
           /\ catPending' = Append(catPending, [videoId |-> videoId', cause |-> lastOp'])
      /\ linkPending' # linkPending /\ lastOp' \notin ResponseClasses =>
           /\ lastOp' = "requestLink"
           /\ Len(linkPending') = Len(linkPending) + 1
      /\ lastOp' \in ResponseClasses =>
           \/ /\ linkPending' = linkPending
              /\ \E i \in DOMAIN catPending : catPending' = RemoveAt(catPending, i)
           \/ /\ catPending' = catPending
              /\ \E i \in DOMAIN linkPending : linkPending' = RemoveAt(linkPending, i) ]_vars

\* a catalog request has failed, and no request of either slot is in flight
C11_Witness ==
  /\ lastOp \in CatalogFailures
  /\ catPending = <<>>
  /\ linkPending = <<>>
  /\ error # NoError

\* C12: every failure leaves the flow retryable: right after a catalog
\* failure the retry action is enabled, and right after a link failure with a
\* non-empty selection and a non-empty active list requestLink is enabled.
C12_FailureRetryable ==
  /\ lastOp \in CatalogFailures => ENABLED Retry
  /\ (lastOp \in LinkFailures /\ selectedQuality # <<>> /\ Len(currentFormats) > 0) =>
       ENABLED ClickGenerate

\* C13: resetLink discards the issued link (url and info) and leaves the flow
\* in Ready; it sends no request and leaves the catalog, the active
\* mediaKind, the selected quality and the videoId unchanged.
C13_ResetLinkFrame ==
  [][ lastOp' = "resetLink" =>
        /\ FlowState = "LinkReady"
        /\ downloadUrl' = NoUrl
        /\ downloadInfo' = NoInfo
        /\ FlowState' = "Ready"
        /\ UNCHANGED << catPending, linkPending, formats, activeTab,
                        selectedQuality, videoId >> ]_vars

\* a link issued for the audio kind has been discarded by resetLink
C13_Witness ==
  /\ lastOp = "resetLink"
  /\ activeTab = "audio"
  /\ selectedQuality = L128k
  /\ Len(formats.audioFormats) > 0
  /\ downloadUrl = NoUrl

\* C14: right after a successful catalog response whose list for the active
\* mediaKind is empty the main view with its empty-state is shown and no
\* error is stored, and while the active list is empty requestLink is not
\* enabled.
C14_EmptyListIsNotAnError ==
  /\ (lastOp = "catalog2xx" /\ Len(currentFormats) = 0) =>
       (error = NoError /\ View = "main")
  /\ Len(currentFormats) = 0 => ~ENABLED ClickGenerate

\* the digits of a label, in their order
RECURSIVE DigitsOf(_)
DigitsOf(s) ==
  IF s = <<>> THEN <<>>
  ELSE IF Head(s) \in Digits THEN <<Head(s)>> \o DigitsOf(Tail(s))
  ELSE DigitsOf(Tail(s))

\* C15: the request sent by requestLink carries the digits of the selected
\* quality label in their order and nothing else, the active mediaKind and
\* the current videoId.
C15_RequestCarriesDigits ==
  [][ (lastOp' = "requestLink" /\ linkPending' # linkPending) =>
        /\ Len(linkPending') = Len(linkPending) + 1
        /\ linkPending'[Len(linkPending')].quality = DigitsOf(selectedQuality)
        /\ linkPending'[Len(linkPending')].type = activeTab
        /\ linkPending'[Len(linkPending')].videoId = videoId ]_vars

\* a request is in flight for a label with digits on both sides of a letter
C15_Witness ==
  /\ lastOp = "requestLink"
  /\ selectedQuality = L1080p60
  /\ Len(linkPending) = 1
  /\ linkPending[1].quality = <<"1", "0", "8", "0", "6", "0">>

SelectionOps == {"selectQuality", "selectMediaKind"}

CatalogSuccesses == {"catalog2xx", "catalog2xxErrorField"}

LinkStates == {"Ready", "LinkReady", "LinkError"}

\* C16 (as claimed): the flow starts in FetchingCatalog and every step keeps
\* the FlowState or is one of: FetchingCatalog -> Ready | CatalogError;
\* Ready | LinkReady | LinkError -> IssuingLink on requestLink; IssuingLink ->
\* LinkReady | LinkError; a selection change leading to Ready; CatalogError ->
\* FetchingCatalog on retry.
C16_RefinesFlow ==
  /\ FlowState = "FetchingCatalog"
  /\ [][ \/ FlowState' = FlowState
         \/ FlowState = "FetchingCatalog" /\ FlowState' \in {"Ready", "CatalogError"}
         \/ /\ lastOp' = "requestLink"
            /\ FlowState \in LinkStates
            /\ FlowState' = "IssuingLink"
         \/ FlowState = "IssuingLink" /\ FlowState' \in {"LinkReady", "LinkError"}
         \/ lastOp' \in SelectionOps /\ FlowState' = "Ready"
         \/ /\ lastOp' = "retry"
            /\ FlowState = "CatalogError"
            /\ FlowState' = "FetchingCatalog" ]_vars

\* the steps of the flow the component takes, by the operation op that takes
\* the flow from state f to state t
FlowStep(f, op, t) ==
  \/ op = "mount" /\ f = "FetchingCatalog" /\ t = "FetchingCatalog"
  \/ op = "videoIdChange" /\ t = "FetchingCatalog"
  \/ op = "retry" /\ f = "CatalogError" /\ t = "FetchingCatalog"
  \/ /\ op \in CatalogSuccesses
     /\ \/ f = "FetchingCatalog" /\ t \in {"Ready", "IssuingLink", "LinkReady", "LinkError"}
        \/ f = "CatalogError" /\ t = "LinkError"
        \/ f \in LinkStates \cup {"IssuingLink"} /\ t = f
  \/ /\ op \in CatalogFailures
     /\ \/ f = "FetchingCatalog" /\ t \in {"CatalogError", "IssuingLink", "LinkReady", "LinkError"}
        \/ f = "CatalogError" /\ t = "CatalogError"
        \/ f = "Ready" /\ t = "LinkError"
        \/ f \in {"IssuingLink", "LinkReady", "LinkError"} /\ t = f
  \/ op = "requestLink" /\ f \in LinkStates /\ t = "IssuingLink"
  \/ /\ op = "link2xx"
     /\ \/ f = "IssuingLink" /\ t = "LinkReady"
        \/ f = "FetchingCatalog" /\ t = "FetchingCatalog"
  \/ /\ op \in LinkFailures
     /\ \/ f = "IssuingLink" /\ t = "LinkError"
        \/ f = "FetchingCatalog" /\ t = "FetchingCatalog"
  \/ /\ op \in SelectionOps
     /\ \/ f \in LinkStates /\ t = "Ready"
        \/ f = "IssuingLink" /\ t = "IssuingLink"
  \/ op = "resetLink" /\ f = "LinkReady" /\ t = "Ready"

\* C16 (amended): the flow starts in FetchingCatalog and every step is one of
\* the steps of FlowStep: the claimed ones and, besides, a videoId change from
\* any state to FetchingCatalog, resetLink from LinkReady to Ready, and a
\* catalog response that uncovers or leaves the state of the link slot.
C16_RefinesFlowAmended ==
  /\ FlowState = "FetchingCatalog"
  /\ [][ FlowStep(FlowState, lastOp', FlowState') ]_vars

\* the videoId changed while a link was being issued for a stored catalog
C16_Witness ==
  /\ lastOp = "videoIdChange"
  /\ FlowState = "FetchingCatalog"
  /\ formats # NoFormats
  /\ loading

\* C17: after a videoId change, whenever no catalog request is in flight
\* the stored catalog was fetched for the current videoId.
C17_NoStaleCatalog ==
  (changes > 0 /\ catPending = <<>> /\ formats # NoFormats) => formats.title = videoId

\* C18: once mounted, the fetching flag is true exactly while a catalog
\* request is unanswered and the loading flag exactly while a link request
\* is unanswered.
C18_BusyFlagsMatchRequests ==
  mounted =>
    /\ fetchingFormats <=> (catPending # <<>>)
    /\ loading <=> (linkPending # <<>>)

C20_RequestFromActiveList ==
  ENABLED ClickGenerate =>
    /\ \E i \in DOMAIN currentFormats : currentFormats[i].quality = selectedQuality
    /\ formats.title = videoId

\* C21: an issued link and an error are never stored at the same time: while
\* a downloadUrl is present the error is absent.
C21_LinkExcludesError ==
  downloadUrl # NoUrl => error = NoError

\* ------------------------------------------------------------------------
\* Type invariant
\* ------------------------------------------------------------------------
TypeOK ==
  /\ mounted \in BOOLEAN
  /\ videoId \in VideoIds
  /\ activeTab \in {"video", "audio"}
  /\ loading \in BOOLEAN
  /\ fetchingFormats \in BOOLEAN
  /\ formats = NoFormats \/ formats \in CatalogBodies(formats.title)
  /\ \A i \in DOMAIN catPending : catPending[i].videoId \in VideoIds
  /\ Len(linkPending) <= 1
====
